---- MODULE Spec2Model ----
(***************************************************************************)
(* Model of the competition discovery worker (src/src/index.ts): the       *)
(* workflow of one invocation (fetch, extract, dedup gate, marker writes,  *)
(* sequential notification sends), the seen-marker store shared by the     *)
(* invocations, and the notification batcher buildTelegramMessages.        *)
(*                                                                         *)
(* Strings are represented by what the modelled code reads of them.  A     *)
(* Competition is [id, size]: its id and the length (UTF-16 code units)    *)
(* of the block formatCompetition renders for it.  A rendered block is     *)
(* [id, len].  A message is [header, blocks]: the header buildHeader       *)
(* produced and the blocks joined by the two-character separator; its      *)
(* length is computed from these parts as String.length would give it.     *)
(*                                                                         *)
(* The extraction (decodeCompetitionChunk, extractCompetitions and what    *)
(* they call) is modelled on texts: a text is a sequence of units, single  *)
(* characters where the code looks at characters and opaque pieces for the *)
(* rest, and the payload values are JS values with their coercions.        *)
(* escapeMarkdown is modelled on strings as sequences of characters.       *)
(***************************************************************************)
EXTENDS Integers, Sequences, FiniteSets, TLC

VARIABLES
    kvConfigured,   \* env.COMPETITION_KV is bound
    creds,          \* env.TELEGRAM_BOT_TOKEN and env.TELEGRAM_CHAT_ID are both set
    kv,             \* the store: kv[id] is TRUE when the key "seen:id" holds a marker
    expired,        \* ids whose marker has at some time been removed by its TTL
    now,            \* logical clock: number of invocations started so far
    pc,             \* per invocation slot: position in runWorkflow
    epoch,          \* per slot: the clock value at which the invocation started
    competitions,   \* per slot: result of extractCompetitions
    existing,       \* per slot: the Promise.all(checks) results, per index
    newItems,       \* per slot: result of filterNewCompetitions
    puts,           \* per slot: state of each KV put of storeSeen, per index
    messages,       \* per slot: result of buildTelegramMessages
    sendLog,        \* per slot: outcome of each sendTelegramMessage attempted, in order
    result,         \* per slot: the WorkflowResult (without its timestamp)
    response,       \* per slot: HTTP status answered by the fetch handler, 0 while none
    failCause,      \* per slot: which await rejected when the invocation failed
    crashedAt,      \* per slot: pc at which the worker was killed
    notifiedIn,     \* history: notifiedIn[id] = epochs of the invocations that attempted to send id
    firstPut,       \* history: firstPut[id] = epoch of the first invocation that wrote id's marker
    lost,           \* history: ids whose marker was written by an invocation killed afterwards
    bIn,            \* batcher on its own: the input list
    bOut,           \* batcher on its own: the messages returned
    bDone,          \* batcher on its own: the function has returned
    xDoc,           \* extraction on its own: the pieces of the document
    xSegs,          \* extraction on its own: the segments of the document's chunk
    xChunk,         \* extraction on its own: result of decodeCompetitionChunk
    xLog,           \* extraction on its own: the iterations of the scan
    xOut,           \* extraction on its own: result of extractCompetitions
    xDone,          \* extraction on its own: the function has returned
    eIn,            \* escaping on its own: the input string
    eOut,           \* escaping on its own: result of escapeMarkdown
    eDone           \* escaping on its own: the function has returned

envVars   == <<kvConfigured, creds>>
storeVars == <<kv, expired>>
runVars   == <<now, pc, epoch, competitions, existing, newItems, puts, messages,
               sendLog, result, response, failCause, crashedAt>>
histVars  == <<notifiedIn, firstPut, lost>>
batchVars == <<bIn, bOut, bDone>>
extractVars == <<xDoc, xSegs, xChunk, xLog, xOut, xDone>>
escapeVars == <<eIn, eOut, eDone>>
vars      == <<envVars, storeVars, runVars, histVars, batchVars, extractVars, escapeVars>>

----------------------------------------------------------------------------
(* Bounds of the model *)

NumIds   == 2      \* competition ids that the listing page can carry
MaxRecs  == 2      \* records extracted from one page
NumSlots == 2      \* invocations that can be in progress at the same time
MaxRuns  == 2      \* invocations started in one behaviour
MaxBatch == 3      \* records given to the batcher checked on its own
MaxSegs  == 3      \* segments of the chunk given to the extraction checked on its own
MaxFrags == 3      \* pieces (payload fragments, other text) of a document
MaxText  == 3      \* characters of a string given to escapeMarkdown checked on its own

Ids   == 1..NumIds
Slots == 1..NumSlots

(* Program constant *)
TELEGRAM_MAX_LENGTH == 4096

----------------------------------------------------------------------------
(* Sequences helpers *)

RECURSIVE SumLens(_)
SumLens(bs) == IF bs = <<>> THEN 0 ELSE Head(bs).len + SumLens(Tail(bs))

RECURSIVE Flatten(_)
Flatten(ss) == IF ss = <<>> THEN <<>> ELSE Head(ss) \o Flatten(Tail(ss))

SeqsUpTo(S, n) == UNION { [1..k -> S] : k \in 0..n }

RECURSIVE Digits(_)
Digits(n) == IF n < 10 THEN 1 ELSE 1 + Digits(n \div 10)

----------------------------------------------------------------------------
(* Notification batcher *)

\* formatCompetition: the rendered block of a record
formatCompetition(comp) == [id |-> comp.id, len |-> comp.size]

\* buildHeader(total, start?, end?): start = 0 stands for "undefined"
buildHeader(total, start, end) ==
    IF start # 0 /\ end # 0
    THEN [kind |-> "range", total |-> total, start |-> start, end |-> end]
    ELSE [kind |-> "whole", total |-> total, start |-> 0, end |-> 0]

\* .length of the header string
HeaderLen(h) ==
    IF h.kind = "range"
    THEN 16 + 2 * Digits(h.total) + Digits(h.start) + Digits(h.end)
    ELSE 11 + Digits(h.total)

\* header + currentBatch.join("\n\n")
MakeMessage(header, batch) == [header |-> header, blocks |-> batch]

\* .length of a message string
MsgLen(m) ==
    HeaderLen(m.header) + SumLens(m.blocks)
    + (IF Len(m.blocks) > 0 THEN 2 * (Len(m.blocks) - 1) ELSE 0)

\* wouldBeLength of loop iteration i0 (0-based) with the batch built so far
WouldBeLength(totalCount, i0, currentBatch, formatted) ==
    LET batchStart == i0 - Len(currentBatch) + 1
        headerTemplate == buildHeader(totalCount, batchStart, i0 + 1)
    IN  HeaderLen(headerTemplate) + SumLens(currentBatch)
        + (IF Len(currentBatch) > 0 THEN 2 * Len(currentBatch) ELSE 0)
        + formatted.len

\* faulty variant: the batch is closed already when the limit is reached exactly
ShouldClose_atLimit(wouldBeLength, currentBatch) ==
    wouldBeLength >= TELEGRAM_MAX_LENGTH /\ Len(currentBatch) > 0

\* the condition under which the loop closes the current batch
ShouldClose(wouldBeLength, currentBatch) ==
    wouldBeLength > TELEGRAM_MAX_LENGTH /\ Len(currentBatch) > 0

\* faulty variant: the end of the range taken one too far
CloseHeader_endTooFar(totalCount, i0, currentBatch) ==
    buildHeader(totalCount, i0 - Len(currentBatch) + 1, i0 + 1)

\* header of a batch closed inside the loop at iteration i0
CloseHeader(totalCount, i0, currentBatch) ==
    LET batchStart == i0 - Len(currentBatch) + 1
        batchEnd == i0
    IN  IF totalCount = Len(currentBatch)
        THEN buildHeader(totalCount, 0, 0)
        ELSE buildHeader(totalCount, batchStart, batchEnd)

\* header of the last batch, flushed after the loop
FlushHeader(totalCount, msgs, currentBatch) ==
    LET batchStart == totalCount - Len(currentBatch) + 1
    IN  IF Len(msgs) = 0
        THEN buildHeader(totalCount, 0, 0)
        ELSE buildHeader(totalCount, batchStart, totalCount)

\* faulty variant: the new batch starts empty, the block that did not fit is lost
StartBatch_empty(formatted) == <<>>

\* currentBatch = [formatted]: the batch started after one was closed
StartBatch(formatted) == <<formatted>>

\* the for loop from iteration i0 on, then the flush
RECURSIVE BuildLoop(_, _, _, _)
BuildLoop(comps, i0, msgs, currentBatch) ==
    IF i0 < Len(comps)
    THEN LET formatted == formatCompetition(comps[i0 + 1])
             wouldBeLength == WouldBeLength(Len(comps), i0, currentBatch, formatted)
         IN  IF ShouldClose(wouldBeLength, currentBatch)
             THEN BuildLoop(comps, i0 + 1,
                            Append(msgs, MakeMessage(CloseHeader(Len(comps), i0, currentBatch),
                                                     currentBatch)),
                            StartBatch(formatted))
             ELSE BuildLoop(comps, i0 + 1, msgs, Append(currentBatch, formatted))
    ELSE IF Len(currentBatch) > 0
         THEN Append(msgs, MakeMessage(FlushHeader(Len(comps), msgs, currentBatch),
                                       currentBatch))
         ELSE msgs

buildTelegramMessages(comps) == BuildLoop(comps, 0, <<>>, <<>>)

----------------------------------------------------------------------------
(* Text of the page.  A text is a sequence of units: single characters where *)
(* the code looks at characters (backslash, quote, braces, a control         *)
(* character), and for the rest the pieces of text that the code never looks *)
(* into, each standing for its characters.                                   *)

BS    == "\\"                          \* a backslash
QT    == "\""                          \* a double quote
LB    == "{"
RB    == "}"
CTL   == "\n"                          \* a raw control character (0x00-0x1F)
CV    == "card-view-"                  \* the text the chunk is recognised by
OPEN  == "self.__next_f.push([1,\""    \* what RSC_CHUNK_REGEX matches before its group
CLOSE == "\"])"                        \* what RSC_CHUNK_REGEX matches after its group
UHEX  == "u0041"                       \* after a backslash: the escape of the letter A

\* result of a function that returns string | null
Null == [ok |-> FALSE, s |-> <<>>]
Str(s) == [ok |-> TRUE, s |-> s]

\* String.prototype.indexOf(unit, from) with positions counted from 1; 0 is JS's -1
RECURSIVE IndexOf(_, _, _)
IndexOf(s, unit, from) ==
    IF from > Len(s) THEN 0
    ELSE IF s[from] = unit THEN from
    ELSE IndexOf(s, unit, from + 1)

\* String.prototype.indexOf(pattern, from) for a pattern of several units
RECURSIVE IndexOfSeq(_, _, _)
IndexOfSeq(s, pat, from) ==
    IF from + Len(pat) - 1 > Len(s) THEN 0
    ELSE IF SubSeq(s, from, from + Len(pat) - 1) = pat THEN from
    ELSE IndexOfSeq(s, pat, from + 1)

\* String.prototype.includes
Includes(s, unit) == IndexOf(s, unit, 1) # 0

\* html.matchAll(RSC_CHUNK_REGEX): the captured groups in document order; the group
\* is lazy, it ends at the first CLOSE after the OPEN
RECURSIVE MatchAll(_, _)
MatchAll(html, from) ==
    LET o == IndexOf(html, OPEN, from)
        c == IF o = 0 THEN 0 ELSE IndexOf(html, CLOSE, o + 1)
    IN  IF o = 0 \/ c = 0 THEN <<>>
        ELSE <<SubSeq(html, o + 1, c - 1)>> \o MatchAll(html, c + 1)

\* input.replace(/\\/g, "\\\\"): every backslash doubled
RECURSIVE EscapeBackslashes(_)
EscapeBackslashes(s) ==
    IF s = <<>> THEN <<>>
    ELSE (IF Head(s) = BS THEN <<BS, BS>> ELSE <<Head(s)>>) \o EscapeBackslashes(Tail(s))

\* .replace(/"/g, '\\"'): a backslash put before every quote
RECURSIVE EscapeQuotes(_)
EscapeQuotes(s) ==
    IF s = <<>> THEN <<>>
    ELSE (IF Head(s) = QT THEN <<BS, QT>> ELSE <<Head(s)>>) \o EscapeQuotes(Tail(s))

\* JSON.parse of the string literal "body": the escapes \\ and \" and \uXXXX are
\* decoded; a raw control character, a quote that ends the literal before its end
\* and any other escape are syntax errors
RECURSIVE ParseStringLiteral(_)
ParseStringLiteral(body) ==
    IF body = <<>> THEN Str(<<>>)
    ELSE IF Head(body) = BS
    THEN IF Len(body) < 2 THEN Null
         ELSE LET rest == ParseStringLiteral(Tail(Tail(body)))
                  c == body[2]
              IN  IF ~rest.ok THEN Null
                  ELSE IF c \in {BS, QT} THEN Str(<<c>> \o rest.s)
                  ELSE IF c = UHEX THEN Str(<<"A">> \o rest.s)
                  ELSE Null
    ELSE IF Head(body) \in {QT, CTL} THEN Null
    ELSE LET rest == ParseStringLiteral(Tail(body))
         IN  IF rest.ok THEN Str(<<Head(body)>> \o rest.s) ELSE Null

\* input.replace(/\\u([0-9a-fA-F]{4})/g, ...): a backslash and four hex digits
\* become the character they name
RECURSIVE unescapeUnicode(_)
unescapeUnicode(s) ==
    IF s = <<>> THEN <<>>
    ELSE IF Len(s) >= 2 /\ s[1] = BS /\ s[2] = UHEX
    THEN <<"A">> \o unescapeUnicode(Tail(Tail(s)))
    ELSE <<Head(s)>> \o unescapeUnicode(Tail(s))

\* decodeEscapedString: null when JSON.parse throws
decodeEscapedString(input) ==
    LET escaped == EscapeQuotes(EscapeBackslashes(input))
        firstPass == ParseStringLiteral(escaped)
    IN  IF firstPass.ok THEN Str(unescapeUnicode(firstPass.s)) ELSE Null

\* faulty variant: the loop gives up at the first fragment that does not qualify
ChunkLoop_firstOnly(matches) ==
    IF matches = <<>> THEN Null
    ELSE LET decoded == decodeEscapedString(Head(matches))
         IN  IF decoded.ok /\ decoded.s # <<>> /\ Includes(decoded.s, CV)
             THEN decoded
             ELSE Null

\* the for loop of decodeCompetitionChunk over the matches that remain
RECURSIVE ChunkLoop(_)
ChunkLoop(matches) ==
    IF matches = <<>> THEN Null
    ELSE LET decoded == decodeEscapedString(Head(matches))
         IN  IF decoded.ok /\ decoded.s # <<>> /\ Includes(decoded.s, CV)
             THEN decoded
             ELSE ChunkLoop(Tail(matches))

decodeCompetitionChunk(html) == ChunkLoop(MatchAll(html, 1))

----------------------------------------------------------------------------
(* Values of the decoded payload.  A JS value is [t, v]: its type and what    *)
(* it holds; a JS string is the sequence of its characters.                   *)

Undefined == [t |-> "undefined", v |-> 0]
JsNull    == [t |-> "null", v |-> 0]
NaN       == [t |-> "NaN", v |-> 0]
JsStr(s)  == [t |-> "string", v |-> s]
JsNum(n)  == [t |-> "number", v |-> n]
JsBool(b) == [t |-> "boolean", v |-> b]
JsArr(a)  == [t |-> "array", v |-> a]
JsObj(f)  == [t |-> "object", v |-> f]

\* the literals of the payload texts, each one unit of the text (a string literal
\* stands with its two escaped quotes), and the keys with their quotes and colon
KeyName(unit) ==
    CASE unit = "key:competition"  -> "competition"
      [] unit = "key:id"           -> "id"
      [] unit = "key:title"        -> "title"
      [] unit = "key:description"  -> "description"
      [] unit = "key:participants" -> "participants"
      [] OTHER                     -> ""

IsKey(unit) == KeyName(unit) # ""

Literals == {"str:", "str:7", "str:42", "str:abc", "str:T", "num:0", "num:7",
             "true", "null", "arr:", "arr:7"}

\* JSON.parse of one literal
LiteralValue(unit) ==
    CASE unit = "str:"    -> JsStr(<<>>)
      [] unit = "str:7"   -> JsStr(<<"7">>)
      [] unit = "str:42"  -> JsStr(<<"4", "2">>)
      [] unit = "str:abc" -> JsStr(<<"a", "b", "c">>)
      [] unit = "str:T"   -> JsStr(<<"T">>)
      [] unit = "num:0"   -> JsNum(0)
      [] unit = "num:7"   -> JsNum(7)
      [] unit = "true"    -> JsBool(TRUE)
      [] unit = "null"    -> JsNull
      [] unit = "arr:"    -> JsArr(<<>>)
      [] unit = "arr:7"   -> JsArr(<<JsNum(7)>>)

\* property read obj.key: undefined when the value has no such property
Get(val, key) ==
    IF val.t = "object" /\ key \in DOMAIN val.v THEN val.v[key] ELSE Undefined

\* !!value
Truthy(val) ==
    CASE val.t \in {"undefined", "null", "NaN"} -> FALSE
      [] val.t = "boolean" -> val.v
      [] val.t = "number"  -> val.v # 0
      [] val.t = "string"  -> val.v # <<>>
      [] OTHER             -> TRUE

\* value ?? fallback
Coalesce(val, fallback) == IF val.t \in {"undefined", "null"} THEN fallback ELSE val

DigitChars == <<"0", "1", "2", "3", "4", "5", "6", "7", "8", "9">>

\* decimal rendering of a natural number
RECURSIVE DigitsOf(_)
DigitsOf(n) ==
    IF n < 10 THEN <<DigitChars[n + 1]>>
    ELSE DigitsOf(n \div 10) \o <<DigitChars[(n % 10) + 1]>>

\* elements of an array joined by commas, null and undefined rendered empty
RECURSIVE JoinStrings(_)
JoinStrings(ss) ==
    IF ss = <<>> THEN <<>>
    ELSE IF Len(ss) = 1 THEN ss[1]
    ELSE ss[1] \o <<",">> \o JoinStrings(Tail(ss))

\* String(value)
RECURSIVE ToStr(_)
ToStr(val) ==
    CASE val.t = "string"    -> val.v
      [] val.t = "number"    -> DigitsOf(val.v)
      [] val.t = "NaN"       -> <<"N", "a", "N">>
      [] val.t = "boolean"   -> IF val.v THEN <<"t", "r", "u", "e">>
                                ELSE <<"f", "a", "l", "s", "e">>
      [] val.t = "null"      -> <<"n", "u", "l", "l">>
      [] val.t = "undefined" -> <<"u", "n", "d", "e", "f", "i", "n", "e", "d">>
      [] val.t = "array"     ->
            JoinStrings([i \in DOMAIN val.v |->
                           IF val.v[i].t \in {"null", "undefined"} THEN <<>>
                           ELSE ToStr(val.v[i])])
      [] OTHER               -> <<"[object Object]">>

DigitValue(c) == CHOOSE d \in 0..9 : DigitChars[d + 1] = c

\* value of a string of decimal digits
RECURSIVE DigitsValue(_)
DigitsValue(s) ==
    IF s = <<>> THEN 0
    ELSE 10 * DigitsValue(SubSeq(s, 1, Len(s) - 1)) + DigitValue(s[Len(s)])

\* Number(string): the empty string is 0, a string of digits its value, any other
\* string of the alphabet is NaN
StrToNum(s) ==
    IF \A i \in DOMAIN s : \E d \in DOMAIN DigitChars : DigitChars[d] = s[i]
    THEN JsNum(DigitsValue(s))
    ELSE NaN

\* Number(value)
ToNum(val) ==
    CASE val.t = "number"    -> val
      [] val.t = "NaN"       -> NaN
      [] val.t = "undefined" -> NaN
      [] val.t = "null"      -> JsNum(0)
      [] val.t = "boolean"   -> JsNum(IF val.v THEN 1 ELSE 0)
      [] val.t = "string"    -> StrToNum(val.v)
      [] OTHER               -> StrToNum(ToStr(val))

----------------------------------------------------------------------------
(* Carving and decoding one block *)

\* the for loop of extractJsonBlock from position i on: the position of the brace
\* that brings the depth back to zero, 0 when the end of the source is reached
RECURSIVE BlockEnd(_, _, _, _)
BlockEnd(source, i, depth, inString) ==
    IF i > Len(source) THEN 0
    ELSE LET char == source[i]
             prevIsBackslash == i > 1 /\ source[i - 1] = BS
             str == IF char = QT /\ ~prevIsBackslash THEN ~inString ELSE inString
         IN  IF ~str /\ char = LB THEN BlockEnd(source, i + 1, depth + 1, str)
             ELSE IF ~str /\ char = RB
             THEN IF depth - 1 = 0 THEN i
                  ELSE BlockEnd(source, i + 1, depth - 1, str)
             ELSE BlockEnd(source, i + 1, depth, str)

\* extractJsonBlock(source, startIndex): source.slice(startIndex, i + 1) or null
extractJsonBlock(source, startIndex) ==
    LET end == BlockEnd(source, startIndex, 0, FALSE)
    IN  IF end = 0 THEN Null ELSE Str(SubSeq(source, startIndex, end))

\* sanitizeJsonString: a raw newline becomes backslash and n
RECURSIVE sanitizeJsonString(_)
sanitizeJsonString(s) ==
    IF s = <<>> THEN <<>>
    ELSE (IF Head(s) = CTL THEN <<BS, "n">> ELSE <<Head(s)>>)
         \o sanitizeJsonString(Tail(s))

\* sanitized.replace(/\\"/g, '"'): backslash-quote becomes a quote
RECURSIVE UnescapeQuotes(_)
UnescapeQuotes(s) ==
    IF s = <<>> THEN <<>>
    ELSE IF Len(s) >= 2 /\ s[1] = BS /\ s[2] = QT
    THEN <<QT>> \o UnescapeQuotes(Tail(Tail(s)))
    ELSE <<Head(s)>> \o UnescapeQuotes(Tail(s))

\* result of a parse step: the value read and the position after it
ParseFail == [ok |-> FALSE, val |-> Undefined, next |-> 0]
Parsed(val, next) == [ok |-> TRUE, val |-> val, next |-> next]

\* obj with key set to val, as a repeated key does in JSON.parse
WithMember(obj, key, val) ==
    [k \in DOMAIN obj \cup {key} |-> IF k = key THEN val ELSE obj[k]]

\* JSON.parse inside a string spelled character by character, from position p
\* (after the opening quote) on: the characters up to the closing quote, with the
\* escapes decoded; a raw control character, an unknown escape and a missing
\* closing quote are syntax errors
RECURSIVE ParseChars(_, _, _)
ParseChars(toks, p, acc) ==
    IF p > Len(toks) THEN ParseFail
    ELSE IF toks[p] = QT THEN Parsed(JsStr(acc), p + 1)
    ELSE IF toks[p] = CTL THEN ParseFail
    ELSE IF toks[p] = BS
    THEN IF p + 1 > Len(toks) THEN ParseFail
         ELSE IF toks[p + 1] = BS THEN ParseChars(toks, p + 2, acc \o <<BS>>)
         ELSE IF toks[p + 1] = "n" THEN ParseChars(toks, p + 2, acc \o <<CTL>>)
         ELSE IF toks[p + 1] = UHEX THEN ParseChars(toks, p + 2, acc \o <<"A">>)
         ELSE ParseFail
    ELSE ParseChars(toks, p + 1, acc \o <<toks[p]>>)

\* JSON.parse, by recursive descent over the units: a value is a literal, a string
\* spelled character by character or an object, an object is its members between
\* braces, a member is a key and a value
RECURSIVE ParseValue(_, _), ParseMembers(_, _, _)
ParseValue(toks, p) ==
    IF p > Len(toks) THEN ParseFail
    ELSE IF toks[p] \in Literals THEN Parsed(LiteralValue(toks[p]), p + 1)
    ELSE IF toks[p] = QT THEN ParseChars(toks, p + 1, <<>>)
    ELSE IF toks[p] = LB THEN ParseMembers(toks, p + 1, <<>>)
    ELSE ParseFail

ParseMembers(toks, p, obj) ==
    IF p > Len(toks) THEN ParseFail
    ELSE IF toks[p] = RB THEN Parsed(JsObj(obj), p + 1)
    ELSE IF IsKey(toks[p])
    THEN LET member == ParseValue(toks, p + 1)
         IN  IF member.ok
             THEN ParseMembers(toks, member.next,
                               WithMember(obj, KeyName(toks[p]), member.val))
             ELSE ParseFail
    ELSE ParseFail

\* JSON.parse(text): the whole text must be one value
JsonParse(toks) ==
    LET r == ParseValue(toks, 1)
    IN  IF r.ok /\ r.next = Len(toks) + 1 THEN r ELSE ParseFail

\* parseCompetitionJson: the second attempt decodes the same characters as UTF-8,
\* which leaves the ASCII text of the model as it is
parseCompetitionJson(raw) ==
    LET normalized == UnescapeQuotes(sanitizeJsonString(raw))
        first == JsonParse(normalized)
    IN  IF first.ok THEN first ELSE JsonParse(normalized)

----------------------------------------------------------------------------
(* extractCompetitions.  A Competition of the extraction is [id, title,      *)
(* participants]: the fields the checks and coercions of lines 161-179 are    *)
(* about; participants is [nan, n], the number or NaN.                        *)

\* the marker of the scan: backslash, quote, card-view-
marker == <<BS, QT, CV>>

\* Number(comp.participants ?? 0) as the field of the record
Participants(comp) ==
    LET num == ToNum(Coalesce(Get(comp, "participants"), JsNum(0)))
    IN  [nan |-> num.t = "NaN", n |-> num.v]

\* normalizeSpaces(comp.description ?? "") throws a TypeError when the value is
\* neither nullish nor a string: it has no replace method
DescriptionThrows(comp) ==
    Coalesce(Get(comp, "description"), JsStr(<<>>)).t # "string"

\* the try block of one iteration for the block raw: what the iteration does and
\* the records it pushes
Candidate(raw) ==
    LET json == parseCompetitionJson(raw)
        comp == Get(json.val, "competition")
    IN  IF ~json.ok THEN [kind |-> "parseError", recs |-> <<>>]
        ELSE IF ~Truthy(comp) \/ ~Truthy(Get(comp, "id")) \/ ~Truthy(Get(comp, "title"))
        THEN [kind |-> "invalid", recs |-> <<>>]
        ELSE IF DescriptionThrows(comp)
        THEN [kind |-> "parseError", recs |-> <<>>]
        ELSE [kind |-> "record",
              recs |-> << [id |-> ToStr(Get(comp, "id")),
                           title |-> ToStr(Get(comp, "title")),
                           participants |-> Participants(comp)] >>]

\* faulty variant: an unbalanced block ends the scan
AfterUnbalanced_stop(chunk, objectStart) == Len(chunk) + 1

\* searchIndex after a block that never returns to depth zero
AfterUnbalanced(chunk, objectStart) == objectStart + 1

\* faulty variant: after a carved block the scan resumes inside it
AfterBlock_inside(objectStart, raw) == objectStart + 1

\* searchIndex after a block was carved
AfterBlock(objectStart, raw) == objectStart + Len(raw)

\* one entry of the scan's log: the iteration's marker and brace positions, what
\* it did, the records it pushed and the searchIndex it left
Iteration(markerIndex, objectStart, kind, recs, next) ==
    [marker |-> markerIndex, start |-> objectStart, kind |-> kind, recs |-> recs,
     next |-> next]

\* the while loop of extractCompetitions from searchIndex on, one entry per
\* iteration; the last entry is the break
RECURSIVE ScanFrom(_, _)
ScanFrom(chunk, searchIndex) ==
    LET markerIndex == IndexOfSeq(chunk, marker, searchIndex)
        objectStart == IF markerIndex = 0 THEN 0 ELSE IndexOf(chunk, LB, markerIndex)
    IN  IF markerIndex = 0
        THEN << Iteration(0, 0, "noMarker", <<>>, searchIndex) >>
        ELSE IF objectStart = 0
        THEN << Iteration(markerIndex, 0, "noBrace", <<>>, searchIndex) >>
        ELSE LET raw == extractJsonBlock(chunk, objectStart)
             IN  IF ~raw.ok
                 THEN LET next == AfterUnbalanced(chunk, objectStart)
                      IN  << Iteration(markerIndex, objectStart, "unbalanced", <<>>, next) >>
                          \o ScanFrom(chunk, next)
                 ELSE LET c == Candidate(raw.s)
                          next == AfterBlock(objectStart, raw.s)
                      IN  << Iteration(markerIndex, objectStart, c.kind, c.recs, next) >>
                          \o ScanFrom(chunk, next)

\* faulty variant: each record is put in front of the list
RECURSIVE RecordsOf_front(_)
RecordsOf_front(log) ==
    IF log = <<>> THEN <<>> ELSE RecordsOf_front(Tail(log)) \o Head(log).recs

\* the competitions array after the loop: the records pushed, in iteration order
RECURSIVE RecordsOf(_)
RecordsOf(log) ==
    IF log = <<>> THEN <<>> ELSE Head(log).recs \o RecordsOf(Tail(log))

\* the log of the scan of a document, empty when no chunk is found
ScanOfDocument(html) ==
    LET chunk == decodeCompetitionChunk(html)
    IN  IF ~chunk.ok \/ chunk.s = <<>> THEN <<>> ELSE ScanFrom(chunk.s, 1)

extractCompetitions(html) == RecordsOf(ScanOfDocument(html))

----------------------------------------------------------------------------
(* Documents given to the extraction checked on its own *)

\* the text of a member, nothing when the value is absent
Field(key, valueText) == IF valueText = <<>> THEN <<>> ELSE <<key>> \o valueText

\* the text of a record's object: {"competition":{...}}
RecordObject(id, title, participants, description) ==
    <<LB, "key:competition", LB>>
    \o Field("key:id", id) \o Field("key:title", title)
    \o Field("key:participants", participants) \o Field("key:description", description)
    \o <<RB, RB>>

\* the shapes a payload value is given in: absent, strings, numbers, a boolean,
\* null, lists, an object
ValueTexts == { <<>>, <<"str:">>, <<"str:7">>, <<"str:42">>, <<"str:abc">>, <<"num:0">>,
                <<"num:7">>, <<"true">>, <<"null">>, <<"arr:">>, <<"arr:7">>, <<LB, RB>> }

\* segments of a chunk
SegGood7   == marker \o RecordObject(<<"str:7">>, <<"str:T">>, <<>>, <<>>)
SegGood42  == marker \o <<"x">>
              \o RecordObject(<<"str:42">>, <<"str:T">>, <<"num:7">>, <<"str:abc">>)
SegNoTitle == marker \o RecordObject(<<"str:7">>, <<>>, <<>>, <<>>)
SegGarbage == marker \o <<LB, "x", RB>>      \* balanced, not JSON
SegNoComp  == marker \o <<LB, RB>>           \* JSON without a competition member
SegOpen    == marker \o <<LB>>               \* an object that is never closed
SegBare    == marker                         \* a marker without its object
SegFill    == <<"x">>
SegClose   == <<RB>>                         \* a closing brace of its own
SegQuote   == <<QT>>                         \* a quote that is not escaped
SegHalf    == <<CV>>                         \* card-view- without backslash-quote

SegKinds == {SegGood7, SegGood42, SegNoTitle, SegGarbage, SegNoComp, SegOpen, SegBare,
             SegFill, SegClose, SegQuote, SegHalf}

\* a record in which one field has the given shape and the others are as in SegGood7
ShapeSegs ==
    { marker \o RecordObject(v, <<"str:T">>, <<>>, <<>>) : v \in ValueTexts }
    \cup { marker \o RecordObject(<<"str:7">>, v, <<>>, <<>>) : v \in ValueTexts }
    \cup { marker \o RecordObject(<<"str:7">>, <<"str:T">>, v, <<>>) : v \in ValueTexts }
    \cup { marker \o RecordObject(<<"str:7">>, <<"str:T">>, <<>>, v) : v \in ValueTexts }

\* a string value spelled character by character: its two quotes, escaped as
\* they are in the chunk, around its characters
Spelled(chars) == <<BS, QT>> \o chars \o <<BS, QT>>

\* the characters of the string values given spelled: without a brace, with a
\* closing brace, with an opening brace, with both in either order
SpelledChars == { <<"a">>, <<"a", RB, "b">>, <<"a", LB, "b">>, <<LB, "a", RB>>,
                  <<RB, "a", LB>> }

BraceChars == { c \in SpelledChars : Includes(c, LB) \/ Includes(c, RB) }

\* a record whose title or description is a spelled string, with the id 7
SegTitled(chars) == marker \o RecordObject(<<"str:7">>, Spelled(chars), <<>>, <<>>)
SegDescribed(chars) ==
    marker \o RecordObject(<<"str:7">>, <<"str:T">>, <<>>, Spelled(chars))

SpelledSegs ==
    { SegTitled(c) : c \in SpelledChars } \cup { SegDescribed(c) : c \in SpelledChars }

\* chunks: every sequence of segments, every shaped record alone, before and
\* after a good record, and every record with a spelled string alone, before and
\* after a good record and before a closing brace of its own
ChunkInputs ==
    SeqsUpTo(SegKinds, MaxSegs)
    \cup { <<s>> : s \in ShapeSegs }
    \cup { <<s, SegGood42>> : s \in ShapeSegs }
    \cup { <<SegGood42, s>> : s \in ShapeSegs }
    \cup { <<s>> : s \in SpelledSegs }
    \cup { <<s, SegGood42>> : s \in SpelledSegs }
    \cup { <<SegGood42, s>> : s \in SpelledSegs }
    \cup { <<s, SegClose>> : s \in SpelledSegs }

\* a payload fragment as it stands in the document
Wrap(body) == <<OPEN>> \o body \o <<CLOSE>>

\* fragment bodies: empty, without the text sought, with it but undecodable, with
\* an escape to expand, and chunks
FragBodies == { <<>>, <<"x">>, <<CTL, CV>>, <<BS, UHEX>>, SegHalf,
                <<BS, UHEX>> \o SegGood7, SegGood42 }

DocPieces == { Wrap(b) : b \in FragBodies } \cup { <<"x">> }

DocInputs == SeqsUpTo(DocPieces, MaxFrags)

\* the document as one text
Html == Flatten(xDoc)

InitExtractIdle ==
    /\ xDoc = <<>>
    /\ xSegs = <<>>
    /\ xChunk = Null
    /\ xLog = <<>>
    /\ xOut = <<>>
    /\ xDone = FALSE

----------------------------------------------------------------------------
(* escapeMarkdown.  A string is the sequence of its characters. *)

\* the backtick, written by its code point
GRAVE == "U+0060"

\* the character class of the regular expression of escapeMarkdown
EscapedClass == {"_", "*", "[", "]", "(", ")", "~", GRAVE, ">", "#", "+", "-", "=", "|",
                 LB, RB, ".", "!", BS}

\* faulty variant: the backslash is left out of the class
Replacement_keepBackslash(c) == IF c \in EscapedClass \ {BS} THEN <<BS, c>> ELSE <<c>>

\* what replace(..., "\\$1") puts for one character: the match with a backslash
\* before it, any other character as it is
Replacement(c) == IF c \in EscapedClass THEN <<BS, c>> ELSE <<c>>

\* input.replace(/([...])/g, "\\$1"): every match replaced, left to right
RECURSIVE escapeMarkdown(_)
escapeMarkdown(input) ==
    IF input = <<>> THEN <<>>
    ELSE Replacement(Head(input)) \o escapeMarkdown(Tail(input))

\* characters of the strings given to escapeMarkdown: those of the class, and a
\* letter, a slash and a colon as they stand in titles and links
TextChars == EscapedClass \cup {"a", "/", ":"}

TextInputs == SeqsUpTo(TextChars, MaxText)

InitEscapeIdle ==
    /\ eIn = <<>>
    /\ eOut = <<>>
    /\ eDone = FALSE

----------------------------------------------------------------------------
(* What the listing page can yield *)

\* length of the block rendered for a competition of the page: two of the longer
\* blocks, or one of each, do not fit one message; two of the shorter fit exactly
PageSize(id) == 2037 + (id % 2)

PageRecords == { [id |-> i, size |-> PageSize(i)] : i \in Ids }

\* the possible results of extractCompetitions(html)
Pages == SeqsUpTo(PageRecords, MaxRecs)

IdsOf(comps) == { comps[i].id : i \in DOMAIN comps }

NoResult == [fetched |-> 0, newItems |-> 0, notified |-> 0]

----------------------------------------------------------------------------
(* Deduplication gate *)

\* faulty variant: without the binding nothing is treated as new
FilterWithoutKv_none(comps) == <<>>

\* filterNewCompetitions without the KV binding: the list itself
FilterWithoutKv(comps) == comps

\* existing.forEach(...): the records whose lookup gave null, pushed in index order
RECURSIVE FreshFrom(_, _, _)
FreshFrom(comps, values, i) ==
    IF i > Len(comps) THEN <<>>
    ELSE (IF values[i] = "null" THEN <<comps[i]>> ELSE <<>>)
         \o FreshFrom(comps, values, i + 1)

\* faulty variant: every record is pushed, whatever its lookup gave
FreshOf_all(comps, values) == comps

\* faulty variant: the test on the lookup value is inverted
FreshOf_seen(comps, values) ==
    FreshFrom(comps, [i \in DOMAIN values |-> IF values[i] = "null" THEN "value" ELSE "null"], 1)

FreshOf(comps, values) == FreshFrom(comps, values, 1)

\* env.COMPETITION_KV.get("seen:id"): null when the key is absent
KvGet(id) == IF kv[id] THEN "value" ELSE "null"

\* the ops array of storeSeen: one put per record, none without the binding
PutsIssued(items) == IF kvConfigured THEN [i \in DOMAIN items |-> "pending"] ELSE <<>>

----------------------------------------------------------------------------
(* Result reporting *)

\* notified after notifyTelegram returned without throwing
NotifiedOnReturn(items) == Len(items)

\* faulty variant: the count is set although notifyTelegram threw
NotifiedOnThrow_count(items) == Len(items)

\* notified when notifyTelegram threw: the initial value is kept
NotifiedOnThrow(items) == 0

MakeResult(comps, items, n) ==
    [fetched |-> Len(comps), newItems |-> Len(items), notified |-> n]

----------------------------------------------------------------------------
(* Initial state *)

InitRuns ==
    /\ now = 0
    /\ pc = [r \in Slots |-> "idle"]
    /\ epoch = [r \in Slots |-> 0]
    /\ competitions = [r \in Slots |-> <<>>]
    /\ existing = [r \in Slots |-> <<>>]
    /\ newItems = [r \in Slots |-> <<>>]
    /\ puts = [r \in Slots |-> <<>>]
    /\ messages = [r \in Slots |-> <<>>]
    /\ sendLog = [r \in Slots |-> <<>>]
    /\ result = [r \in Slots |-> NoResult]
    /\ response = [r \in Slots |-> 0]
    /\ failCause = [r \in Slots |-> "none"]
    /\ crashedAt = [r \in Slots |-> "none"]

InitStore ==
    /\ kv = [i \in Ids |-> FALSE]
    /\ expired = {}
    /\ notifiedIn = [i \in Ids |-> {}]
    /\ firstPut = [i \in Ids |-> 0]
    /\ lost = {}

InitBatchIdle ==
    /\ bIn = <<>>
    /\ bOut = <<>>
    /\ bDone = FALSE

Init ==
    /\ kvConfigured \in BOOLEAN
    /\ creds \in BOOLEAN
    /\ InitStore
    /\ InitRuns
    /\ InitBatchIdle
    /\ InitExtractIdle
    /\ InitEscapeIdle

----------------------------------------------------------------------------
(* runWorkflow: one action per resumption of the run, each running to its next await *)

\* faulty variant: the handler swallows the error and answers 200
Abort_answers200(r, cause) ==
    /\ pc' = [pc EXCEPT ![r] = "failed"]
    /\ failCause' = [failCause EXCEPT ![r] = cause]
    /\ response' = [response EXCEPT ![r] = 200]

\* the run's Promise rejects: the fetch handler answers 500
Abort(r, cause) ==
    /\ pc' = [pc EXCEPT ![r] = "failed"]
    /\ failCause' = [failCause EXCEPT ![r] = cause]
    /\ response' = [response EXCEPT ![r] = 500]

\* the run returns its WorkflowResult: the fetch handler answers 200
Return(r, comps, items, n) ==
    /\ pc' = [pc EXCEPT ![r] = "done"]
    /\ result' = [result EXCEPT ![r] = MakeResult(comps, items, n)]
    /\ response' = [response EXCEPT ![r] = 200]

\* notifyTelegram up to its first await, and what runWorkflow does when it returns
\* at once: without credentials no message is built and the result is reported
EnterNotify(r, comps, items) ==
    IF ~creds
    THEN /\ Return(r, comps, items, NotifiedOnReturn(items))
         /\ UNCHANGED messages
    ELSE /\ messages' = [messages EXCEPT ![r] = buildTelegramMessages(items)]
         /\ pc' = [pc EXCEPT ![r] = "sending"]
         /\ UNCHANGED <<result, response>>

\* faulty variant: storeSeen is not awaited, notifyTelegram starts with the puts in flight
EnterStore_notAwaited(r, comps, items) ==
    /\ puts' = [puts EXCEPT ![r] = PutsIssued(items)]
    /\ EnterNotify(r, comps, items)

\* storeSeen up to its await: every put is issued; without the binding it returns
\* at once and the run goes on to notifyTelegram
EnterStore(r, comps, items) ==
    /\ puts' = [puts EXCEPT ![r] = PutsIssued(items)]
    /\ IF kvConfigured
       THEN /\ pc' = [pc EXCEPT ![r] = "storing"]
            /\ UNCHANGED <<messages, result, response>>
       ELSE EnterNotify(r, comps, items)

\* faulty variant: the markers are written and the notification made for an empty list too
AfterFilter_alwaysStore(r, comps, items) ==
    /\ newItems' = [newItems EXCEPT ![r] = items]
    /\ EnterStore(r, comps, items)

\* runWorkflow from the return of filterNewCompetitions to its next await
AfterFilter(r, comps, items) ==
    /\ newItems' = [newItems EXCEPT ![r] = items]
    /\ IF Len(items) > 0
       THEN EnterStore(r, comps, items)
       ELSE /\ Return(r, comps, items, 0)
            /\ UNCHANGED <<puts, messages>>

\* faulty variant: an invocation starts only when no other is in progress
FreeSlot_exclusive(r) == pc[r] = "idle" /\ \A q \in Slots \ {r} : pc[q] = "idle" /\ r < q

\* slot r is the one the next invocation takes: the first free one
FreeSlot(r) == pc[r] = "idle" /\ \A q \in Slots : q < r => pc[q] # "idle"

\* an invocation starts, fetchHtml answers non-2xx
FetchFail(r) ==
    /\ FreeSlot(r)
    /\ now < MaxRuns
    /\ now' = now + 1
    /\ epoch' = [epoch EXCEPT ![r] = now + 1]
    /\ Abort(r, "fetch")
    /\ UNCHANGED <<competitions, existing, newItems, puts, messages, sendLog, result,
                   crashedAt>>
    /\ UNCHANGED <<envVars, storeVars, histVars, batchVars, extractVars, escapeVars>>

\* an invocation starts, fetchHtml succeeds, extractCompetitions returns a list and
\* filterNewCompetitions runs to its await: it returns the list at once without the
\* binding, else it issues every lookup
FetchOk(r) ==
    /\ FreeSlot(r)
    /\ now < MaxRuns
    /\ now' = now + 1
    /\ epoch' = [epoch EXCEPT ![r] = now + 1]
    /\ \E page \in Pages :
          /\ competitions' = [competitions EXCEPT ![r] = page]
          /\ IF ~kvConfigured
             THEN /\ AfterFilter(r, page, FilterWithoutKv(page))
                  /\ UNCHANGED existing
             ELSE /\ existing' = [existing EXCEPT ![r] = [i \in DOMAIN page |-> "pending"]]
                  /\ pc' = [pc EXCEPT ![r] = "lookups"]
                  /\ UNCHANGED <<newItems, puts, messages, result, response>>
    /\ UNCHANGED <<sendLog, failCause, crashedAt>>
    /\ UNCHANGED <<envVars, storeVars, histVars, batchVars, extractVars, escapeVars>>

\* one of the concurrent lookups completes
LookupComplete(r) ==
    /\ pc[r] = "lookups"
    /\ \E i \in DOMAIN existing[r] :
          /\ existing[r][i] = "pending"
          /\ existing' = [existing EXCEPT ![r][i] = KvGet(competitions[r][i].id)]
    /\ UNCHANGED <<now, pc, epoch, competitions, newItems, puts, messages, sendLog,
                   result, response, failCause, crashedAt>>
    /\ UNCHANGED <<envVars, storeVars, histVars, batchVars, extractVars, escapeVars>>

\* one of the concurrent lookups rejects: Promise.all rejects, the run aborts
LookupFail(r) ==
    /\ pc[r] = "lookups"
    /\ \E i \in DOMAIN existing[r] :
          /\ existing[r][i] = "pending"
          /\ existing' = [existing EXCEPT ![r][i] = "error"]
    /\ Abort(r, "lookup")
    /\ UNCHANGED <<now, epoch, competitions, newItems, puts, messages, sendLog, result,
                   crashedAt>>
    /\ UNCHANGED <<envVars, storeVars, histVars, batchVars, extractVars, escapeVars>>

\* Promise.all(checks) resolves: the fresh list is computed and returned, and the
\* run goes on to its next await
FilterJoin(r) ==
    /\ pc[r] = "lookups"
    /\ \A i \in DOMAIN existing[r] : existing[r][i] \in {"null", "value"}
    /\ AfterFilter(r, competitions[r], FreshOf(competitions[r], existing[r]))
    /\ UNCHANGED <<now, epoch, competitions, existing, sendLog, failCause, crashedAt>>
    /\ UNCHANGED <<envVars, storeVars, histVars, batchVars, extractVars, escapeVars>>

\* one of the concurrent marker writes completes; a write already issued can still
\* land after the run was aborted or killed
PutComplete(r) ==
    /\ pc[r] \in {"storing", "failed", "crashed"}
    /\ \E i \in DOMAIN puts[r] :
          /\ puts[r][i] = "pending"
          /\ puts' = [puts EXCEPT ![r][i] = "done"]
          /\ kv' = [kv EXCEPT ![newItems[r][i].id] = TRUE]
          /\ firstPut' = [firstPut EXCEPT ![newItems[r][i].id] =
                              IF @ = 0 THEN epoch[r] ELSE @]
    /\ UNCHANGED <<now, pc, epoch, competitions, existing, newItems, messages, sendLog,
                   result, response, failCause, crashedAt>>
    /\ UNCHANGED <<envVars, expired, notifiedIn, lost, batchVars, extractVars, escapeVars>>

\* one of the concurrent marker writes rejects: Promise.all rejects, the run aborts
PutFail(r) ==
    /\ pc[r] = "storing"
    /\ \E i \in DOMAIN puts[r] :
          /\ puts[r][i] = "pending"
          /\ puts' = [puts EXCEPT ![r][i] = "failed"]
    /\ Abort(r, "put")
    /\ UNCHANGED <<now, epoch, competitions, existing, newItems, messages, sendLog,
                   result, crashedAt>>
    /\ UNCHANGED <<envVars, storeVars, histVars, batchVars, extractVars, escapeVars>>

\* Promise.all(ops) resolves: storeSeen returns and notifyTelegram runs to its await
StoreJoin(r) ==
    /\ pc[r] = "storing"
    /\ \A i \in DOMAIN puts[r] : puts[r][i] = "done"
    /\ EnterNotify(r, competitions[r], newItems[r])
    /\ UNCHANGED <<now, epoch, competitions, existing, newItems, puts, sendLog,
                   failCause, crashedAt>>
    /\ UNCHANGED <<envVars, storeVars, histVars, batchVars, extractVars, escapeVars>>

\* faulty variant: the loop index does not advance after a send, the message is sent again
NextMessage_first(r) == IF sendLog[r] = <<>> THEN 1 ELSE Len(sendLog[r])

\* the message the loop is about to send (messages[i], 1-based here)
NextMessage(r) == Len(sendLog[r]) + 1

\* history: the ids of message k of run r have had a send attempt in this run
RecordAttempt(r, k) ==
    notifiedIn' = [id \in Ids |->
                     IF \E j \in DOMAIN messages[r][k].blocks :
                            messages[r][k].blocks[j].id = id
                     THEN notifiedIn[id] \cup {epoch[r]}
                     ELSE notifiedIn[id]]

\* after a successful send: next loop iteration, or notifyTelegram returns
AfterSendOk(r) ==
    IF NextMessage(r) = Len(messages[r])
    THEN Return(r, competitions[r], newItems[r], NotifiedOnReturn(newItems[r]))
    ELSE UNCHANGED <<pc, result, response>>

\* faulty variant: the error is caught inside the loop, which goes on
AfterSendError_continue(r) == AfterSendOk(r)

\* sendTelegramMessage threw: the loop is left, runWorkflow's catch logs the error
AfterSendError(r) ==
    Return(r, competitions[r], newItems[r], NotifiedOnThrow(newItems[r]))

\* sendTelegramMessage gets a 2xx response
SendOk(r) ==
    /\ pc[r] = "sending"
    /\ NextMessage(r) <= Len(messages[r])
    /\ sendLog' = [sendLog EXCEPT ![r] = Append(@, "ok")]
    /\ RecordAttempt(r, NextMessage(r))
    /\ AfterSendOk(r)
    /\ UNCHANGED <<now, epoch, competitions, existing, newItems, puts, messages,
                   failCause, crashedAt>>
    /\ UNCHANGED <<envVars, storeVars, firstPut, lost, batchVars, extractVars, escapeVars>>

\* sendTelegramMessage gets a non-2xx response and throws
SendFail(r) ==
    /\ pc[r] = "sending"
    /\ NextMessage(r) <= Len(messages[r])
    /\ sendLog' = [sendLog EXCEPT ![r] = Append(@, "fail")]
    /\ RecordAttempt(r, NextMessage(r))
    /\ AfterSendError(r)
    /\ UNCHANGED <<now, epoch, competitions, existing, newItems, puts, messages,
                   failCause, crashedAt>>
    /\ UNCHANGED <<envVars, storeVars, firstPut, lost, batchVars, extractVars, escapeVars>>

----------------------------------------------------------------------------
(* Environment *)

Active == {"lookups", "storing", "sending"}

\* the markers of the run are written: storeSeen returned with the binding present
AfterWrites(r) ==
    /\ kvConfigured
    /\ \/ pc[r] = "sending"
       \/ pc[r] = "storing" /\ \A i \in DOMAIN puts[r] : puts[r][i] = "done"

\* the platform kills the invocation at one of its awaits; the store keeps its keys
Crash(r) ==
    /\ pc[r] \in Active
    /\ pc' = [pc EXCEPT ![r] = "crashed"]
    /\ crashedAt' = [crashedAt EXCEPT ![r] = pc[r]]
    /\ lost' = IF AfterWrites(r) THEN lost \cup IdsOf(newItems[r]) ELSE lost
    /\ UNCHANGED <<now, epoch, competitions, existing, newItems, puts, messages, sendLog,
                   result, response, failCause>>
    /\ UNCHANGED <<envVars, storeVars, notifiedIn, firstPut, batchVars, extractVars, escapeVars>>

\* the invocation is over and its slot is free for the next one
Reset(r) ==
    /\ pc[r] \in {"done", "failed", "crashed"}
    /\ pc' = [pc EXCEPT ![r] = "idle"]
    /\ epoch' = [epoch EXCEPT ![r] = 0]
    /\ competitions' = [competitions EXCEPT ![r] = <<>>]
    /\ existing' = [existing EXCEPT ![r] = <<>>]
    /\ newItems' = [newItems EXCEPT ![r] = <<>>]
    /\ puts' = [puts EXCEPT ![r] = <<>>]
    /\ messages' = [messages EXCEPT ![r] = <<>>]
    /\ sendLog' = [sendLog EXCEPT ![r] = <<>>]
    /\ result' = [result EXCEPT ![r] = NoResult]
    /\ response' = [response EXCEPT ![r] = 0]
    /\ failCause' = [failCause EXCEPT ![r] = "none"]
    /\ crashedAt' = [crashedAt EXCEPT ![r] = "none"]
    /\ UNCHANGED <<now, envVars, storeVars, histVars, batchVars, extractVars, escapeVars>>

\* the store drops a marker whose expirationTtl has passed
Expire(id) ==
    /\ kv[id]
    /\ id \notin expired
    /\ kv' = [kv EXCEPT ![id] = FALSE]
    /\ expired' = expired \cup {id}
    /\ UNCHANGED <<envVars, runVars, histVars, batchVars, extractVars, escapeVars>>

----------------------------------------------------------------------------
(* Specifications *)

Step(r) ==
    \/ LookupComplete(r)
    \/ LookupFail(r)
    \/ FilterJoin(r)
    \/ PutComplete(r)
    \/ PutFail(r)
    \/ StoreJoin(r)
    \/ SendOk(r)
    \/ SendFail(r)
    \/ Crash(r)
    \/ Reset(r)

\* invocations may overlap: nothing in the program excludes it
Next ==
    \/ \E r \in Slots : FetchOk(r) \/ FetchFail(r) \/ Step(r)
    \/ \E id \in Ids : Expire(id)

Spec == Init /\ [][Next]_vars

\* the scheduler's assumption: an invocation starts when no other is in progress
NoOtherRun(r) == \A q \in Slots \ {r} : pc[q] = "idle"

NextSeq ==
    \/ \E r \in Slots : (NoOtherRun(r) /\ (FetchOk(r) \/ FetchFail(r))) \/ Step(r)
    \/ \E id \in Ids : Expire(id)

SpecSeq == Init /\ [][NextSeq]_vars

\* the batcher applied to every list of records within the bounds
BatchSizes == {1300, 2037, 2038, 4076, 4077, 4097}

BatchInputs == SeqsUpTo([id : Ids, size : BatchSizes], MaxBatch)

InitBatch ==
    /\ kvConfigured = TRUE
    /\ creds = TRUE
    /\ InitStore
    /\ InitRuns
    /\ bIn \in BatchInputs
    /\ bOut = <<>>
    /\ bDone = FALSE
    /\ InitExtractIdle
    /\ InitEscapeIdle

RunBatcher ==
    /\ ~bDone
    /\ bOut' = buildTelegramMessages(bIn)
    /\ bDone' = TRUE
    /\ UNCHANGED <<bIn, envVars, storeVars, runVars, histVars, extractVars, escapeVars>>

SpecBatch == InitBatch /\ [][RunBatcher]_vars

\* the extraction applied to every document within the bounds
InitExtract ==
    /\ kvConfigured = TRUE
    /\ creds = TRUE
    /\ InitStore
    /\ InitRuns
    /\ InitBatchIdle
    /\ \/ xSegs \in ChunkInputs /\ xDoc = <<Wrap(Flatten(xSegs))>>
       \/ xSegs = <<>> /\ xDoc \in DocInputs
    /\ xChunk = Null
    /\ xLog = <<>>
    /\ xOut = <<>>
    /\ xDone = FALSE
    /\ InitEscapeIdle

RunExtract ==
    /\ ~xDone
    /\ xChunk' = decodeCompetitionChunk(Html)
    /\ xLog' = ScanOfDocument(Html)
    /\ xOut' = extractCompetitions(Html)
    /\ xDone' = TRUE
    /\ UNCHANGED <<xDoc, xSegs, envVars, storeVars, runVars, histVars, batchVars, escapeVars>>

SpecExtract == InitExtract /\ [][RunExtract]_vars

\* escapeMarkdown applied to every string within the bounds
InitEscape ==
    /\ kvConfigured = TRUE
    /\ creds = TRUE
    /\ InitStore
    /\ InitRuns
    /\ InitBatchIdle
    /\ InitExtractIdle
    /\ eIn \in TextInputs
    /\ eOut = <<>>
    /\ eDone = FALSE

RunEscape ==
    /\ ~eDone
    /\ eOut' = escapeMarkdown(eIn)
    /\ eDone' = TRUE
    /\ UNCHANGED <<eIn, envVars, storeVars, runVars, histVars, batchVars, extractVars>>

SpecEscape == InitEscape /\ [][RunEscape]_vars

----------------------------------------------------------------------------
(* Claims about the batcher, checked under SpecBatch *)

\* the rendered blocks of a list, in order
Rendered(comps) == [i \in DOMAIN comps |-> formatCompetition(comps[i])]

\* the record blocks of the messages, headers removed, in message order
BlocksOf(msgs) == Flatten([k \in DOMAIN msgs |-> msgs[k].blocks])

\* 1-based position in the full list of the first block of message k
FirstPos(msgs, k) == Len(BlocksOf(SubSeq(msgs, 1, k - 1))) + 1

\* C1: the blocks of the emitted messages, concatenated in message order with the
\* headers removed, are exactly the rendered blocks of the input list in the
\* original order: no record is dropped, duplicated or reordered.
C1_BlocksCoverInput == bDone => BlocksOf(bOut) = Rendered(bIn)

\* C1 witness: three records were split over two messages
C1_Witness == bDone /\ Len(bIn) = 3 /\ Len(bOut) = 2

\* C2 (as claimed): every emitted message, header plus joined blocks, is at most
\* TELEGRAM_MAX_LENGTH long, for every input list.
C2_EveryMessageWithinLimit ==
    bDone => \A k \in DOMAIN bOut : MsgLen(bOut[k]) <= TELEGRAM_MAX_LENGTH

\* C3: every header carries total = N; with more than one message each header is
\* a range whose start and end are the 1-based positions in the full list of the
\* first and last record of that message; a single message has the whole-total
\* header without a range.
C3_HeadersNumbered ==
    bDone =>
      /\ \A k \in DOMAIN bOut : bOut[k].header.total = Len(bIn)
      /\ Len(bOut) > 1 =>
           \A k \in DOMAIN bOut :
              /\ bOut[k].header.kind = "range"
              /\ bOut[k].header.start = FirstPos(bOut, k)
              /\ bOut[k].header.end = FirstPos(bOut, k) + Len(bOut[k].blocks) - 1
      /\ Len(bOut) = 1 => bOut[1].header.kind = "whole"

\* C3 witness: three messages, the middle one holding the second record alone
C3_Witness ==
    /\ bDone
    /\ Len(bOut) = 3
    /\ bOut[2].header = buildHeader(3, 2, 2)

----------------------------------------------------------------------------
(* Claims about the workflow *)

\* a send has been attempted, or is about to be, in run r
Notifying(r) == pc[r] = "sending" \/ sendLog[r] # <<>>

\* the marker of id is in the store, unless its TTL removed it
MarkerKept(id) == kv[id] \/ id \in expired

C5_NotifiedInOneRun ==
    kvConfigured =>
      \A id \in Ids \ expired :
         /\ notifiedIn[id] \subseteq {firstPut[id]}
         /\ Cardinality(notifiedIn[id]) <= 1

\* C5 witness: a later run met an id that an earlier run had notified, sent
\* another id and left the first one out
C5_Witness ==
    \E r \in Slots, id \in Ids :
        /\ kvConfigured
        /\ id \notin expired
        /\ notifiedIn[id] = {firstPut[id]}
        /\ pc[r] = "done"
        /\ epoch[r] > firstPut[id]
        /\ id \in IdsOf(competitions[r])
        /\ id \notin IdsOf(newItems[r])
        /\ sendLog[r] # <<>>

\* C6 (as claimed): a failed send does not prevent the remaining sends, so a run
\* that has completed has attempted every message it built.
C6_EveryMessageAttempted ==
    \A r \in Slots : pc[r] = "done" => Len(sendLog[r]) = Len(messages[r])

\* C6 (amended): a failed send is the last send of the run: no later message is
\* attempted, and the run has completed.
C6_FailureEndsSending ==
    \A r \in Slots : \A k \in DOMAIN sendLog[r] :
        sendLog[r][k] = "fail" => k = Len(sendLog[r]) /\ pc[r] = "done"

\* C6 witness: the first of two messages failed and the second was never attempted
C6_Witness ==
    \E r \in Slots :
        /\ Len(messages[r]) = 2
        /\ sendLog[r] = <<"fail">>
        /\ pc[r] = "done"

\* C7: when a send has failed the run has completed with a WorkflowResult and
\* status 200, its notified count is strictly lower than its newItems count, and
\* the markers it wrote are still in the store.
C7_SendFailureNotEscalated ==
    \A r \in Slots :
        (\E k \in DOMAIN sendLog[r] : sendLog[r][k] = "fail") =>
          /\ pc[r] = "done"
          /\ response[r] = 200
          /\ result[r].newItems = Len(newItems[r])
          /\ result[r].notified < result[r].newItems
          /\ kvConfigured => \A id \in IdsOf(newItems[r]) : MarkerKept(id)

\* C7 witness: with the store configured, the second of two sends failed
C7_Witness ==
    \E r \in Slots :
        /\ kvConfigured
        /\ sendLog[r] = <<"ok", "fail">>
        /\ \A id \in IdsOf(newItems[r]) : kv[id] /\ firstPut[id] = epoch[r]

\* number of records in the messages of run r whose send succeeded
RECURSIVE DeliveredUpTo(_, _)
DeliveredUpTo(r, k) ==
    IF k = 0 THEN 0
    ELSE DeliveredUpTo(r, k - 1)
         + (IF sendLog[r][k] = "ok" THEN Len(messages[r][k].blocks) ELSE 0)

Delivered(r) == DeliveredUpTo(r, Len(sendLog[r]))

\* C8 (as claimed): in every completed run the notified count equals the number
\* of records contained in a message whose send succeeded.
C8_NotifiedCountsDelivered ==
    \A r \in Slots : pc[r] = "done" => result[r].notified = Delivered(r)

\* C9: without the store binding the gate returns the whole list, no lookup and
\* no marker write is made, the run does not fail at the gate or at the write
\* step, and a run whose sends all succeed has notified every extracted record,
\* whatever earlier runs notified.
C9_FailOpenWithoutStore ==
    ~kvConfigured =>
      /\ \A id \in Ids : ~kv[id]
      /\ \A r \in Slots :
            /\ existing[r] = <<>> /\ puts[r] = <<>>
            /\ pc[r] \in {"sending", "done", "crashed"} =>
                  newItems[r] = competitions[r]
            /\ pc[r] = "failed" => failCause[r] = "fetch"
            /\ pc[r] = "done" =>
                  /\ result[r].newItems = result[r].fetched
                  /\ (creds /\ \A k \in DOMAIN sendLog[r] : sendLog[r][k] = "ok") =>
                        \A id \in IdsOf(competitions[r]) : epoch[r] \in notifiedIn[id]

\* C9 witness: the same id has been notified by two runs
C9_Witness ==
    \E r \in Slots, id \in Ids :
        /\ ~kvConfigured
        /\ pc[r] = "done"
        /\ Len(competitions[r]) = 2
        /\ result[r].notified = 2
        /\ Cardinality(notifiedIn[id]) = 2

\* the indices of the records whose lookup found no marker
NullIndices(r) == { i \in DOMAIN existing[r] : existing[r][i] = "null" }

\* items is comps restricted to the indices idx, in increasing index order
IsRestriction(items, comps, idx) ==
    /\ Len(items) = Cardinality(idx)
    /\ \E f \in [DOMAIN items -> DOMAIN comps] :
          /\ \A i \in DOMAIN items : f[i] \in idx /\ items[i] = comps[f[i]]
          /\ \A i, j \in DOMAIN items : i < j => f[i] < f[j]

\* the gate of run r has returned
PastGate(r) == pc[r] \in {"storing", "sending", "done"}

\* C10 (store configured): a lookup finds null exactly when its id has no marker
\* at the time the lookup completes; when the gate has returned every lookup has
\* completed and the result is the records whose lookup found null, in their
\* original order; no step of the gate changes the store.
C10_GateReturnsUnseen ==
    /\ [](kvConfigured =>
            \A r \in Slots :
               PastGate(r) =>
                 /\ \A i \in DOMAIN competitions[r] : existing[r][i] \in {"null", "value"}
                 /\ IsRestriction(newItems[r], competitions[r], NullIndices(r)))
    /\ [][\A r \in Slots :
            /\ \A i \in DOMAIN existing[r] :
                 (pc[r] = "lookups" /\ existing[r][i] = "pending"
                    /\ existing'[r][i] \in {"null", "value"}) =>
                 (existing'[r][i] = "null" <=> ~kv[competitions[r][i].id])
            /\ (pc[r] \in {"idle", "lookups"} /\ pc'[r] # "crashed"
                  /\ <<pc[r], existing[r]>> # <<pc'[r], existing'[r]>>) => kv' = kv]_vars

\* C10 witness: of two records the first had a marker and the second had none,
\* and the gate returned the second record alone
C10_Witness ==
    \E r \in Slots :
        /\ kvConfigured
        /\ PastGate(r)
        /\ Len(competitions[r]) = 2
        /\ existing[r] = <<"value", "null">>
        /\ newItems[r] = <<competitions[r][2]>>

----------------------------------------------------------------------------
(* Claims about failures of the fetch and about overlapping runs *)

\* C11: a run whose page fetch answered non-2xx has aborted before extraction: it
\* holds no extracted list, has issued no lookup and no marker write, has built and
\* sent no message, has produced no WorkflowResult, has written and notified
\* nothing, and the on-demand endpoint has answered 500.
C11_FetchFailureAborts ==
    \A r \in Slots :
        (pc[r] = "failed" /\ failCause[r] = "fetch") =>
          /\ competitions[r] = <<>> /\ existing[r] = <<>> /\ newItems[r] = <<>>
          /\ puts[r] = <<>> /\ messages[r] = <<>> /\ sendLog[r] = <<>>
          /\ result[r] = NoResult
          /\ response[r] = 500
          /\ \A id \in Ids : epoch[r] \notin notifiedIn[id] /\ firstPut[id] # epoch[r]

\* C11 witness: a fetch failed in the second invocation, the markers written by the
\* first one are still in the store
C11_Witness ==
    \E r \in Slots, id \in Ids :
        /\ pc[r] = "failed" /\ failCause[r] = "fetch" /\ response[r] = 500
        /\ epoch[r] = 2
        /\ kv[id] /\ firstPut[id] = 1

\* documents without a qualifying fragment: no fragment at all, fragments without
\* the text sought, a fragment that has it but cannot be decoded
NoChunkDocs ==
    { <<>>, <<"x">>, Wrap(<<"x">>), Wrap(<<CTL, CV>>),
      Wrap(<<>>) \o <<"x">> \o Wrap(<<BS, UHEX>>) }

\* extractCompetitions on each of these documents
NoChunkGivesEmptyList ==
    \A html \in NoChunkDocs :
        ~decodeCompetitionChunk(html).ok /\ extractCompetitions(html) = <<>>

\* run r fetched its page and extracted no record from it
EmptyPageRun(r) ==
    /\ pc[r] # "idle"
    /\ ~(pc[r] = "failed" /\ failCause[r] = "fetch")
    /\ competitions[r] = <<>>

\* C12: a document without a qualifying chunk gives the empty list, and a run
\* that extracted the empty list does not fail: it issues no marker write, builds
\* and sends no message, and when it completes its WorkflowResult is fetched = 0,
\* newItems = 0, notified = 0 with status 200.
C12_NoChunkEmptyResult ==
    /\ NoChunkGivesEmptyList
    /\ \A r \in Slots :
          EmptyPageRun(r) =>
            /\ pc[r] \in {"lookups", "done", "crashed"}
            /\ pc[r] = "crashed" => crashedAt[r] = "lookups"
            /\ newItems[r] = <<>> /\ puts[r] = <<>>
            /\ messages[r] = <<>> /\ sendLog[r] = <<>>
            /\ \A id \in Ids : epoch[r] \notin notifiedIn[id] /\ firstPut[id] # epoch[r]
            /\ pc[r] = "done" =>
                  /\ result[r] = [fetched |-> 0, newItems |-> 0, notified |-> 0]
                  /\ response[r] = 200

\* C12 witness: with store and credentials configured, the second invocation
\* extracted nothing and has completed
C12_Witness ==
    \E r \in Slots :
        /\ kvConfigured /\ creds
        /\ EmptyPageRun(r)
        /\ epoch[r] = 2
        /\ pc[r] = "done"
        /\ response[r] = 200

\* the lookups of runs r and q for the same id both found no marker
BothFoundNull(r, q, id) ==
    /\ \E i \in DOMAIN existing[r] : competitions[r][i].id = id /\ existing[r][i] = "null"
    /\ \E j \in DOMAIN existing[q] : competitions[q][j].id = id /\ existing[q][j] = "null"

\* C13: nothing excludes an invocation from starting while another is in progress
\* (the next free slot can always start while invocations remain), and two runs
\* whose lookups of the same id both completed before a marker was written both
\* judge the id new.
C13_NoMutualExclusion ==
    /\ \A r \in Slots :
          (/\ pc[r] = "idle"
           /\ \A q \in Slots : q < r => pc[q] # "idle"
           /\ now < MaxRuns) => ENABLED FetchOk(r)
    /\ kvConfigured =>
          \A r, q \in Slots : \A id \in Ids :
             (r # q /\ PastGate(r) /\ PastGate(q) /\ BothFoundNull(r, q, id)) =>
                id \in IdsOf(newItems[r]) \cap IdsOf(newItems[q])

\* C13 witness: two overlapping runs both found no marker for the same id, whose
\* marker never expired, and both have sent a notification for it
C13_Witness ==
    \E r, q \in Slots, id \in Ids :
        /\ kvConfigured /\ r # q
        /\ id \notin expired
        /\ BothFoundNull(r, q, id)
        /\ sendLog[r] = <<"ok">> /\ sendLog[q] = <<"ok">>
        /\ notifiedIn[id] = {epoch[r], epoch[q]}

\* C14: the sends of a run are made one at a time in the order of the batcher's
\* list: the k-th send is the send of the k-th message, it is made only after every
\* earlier send has completed, and no message is sent twice, so the run has
\* attempted exactly the ids of the first Len(sendLog) messages.
C14_SendsInOrder ==
    \A r \in Slots :
        /\ Len(sendLog[r]) <= Len(messages[r])
        /\ \A k \in DOMAIN sendLog[r] : k < Len(sendLog[r]) => sendLog[r][k] = "ok"
        /\ epoch[r] # 0 =>
              \A id \in Ids :
                 epoch[r] \in notifiedIn[id] <=>
                    \E m \in 1..Len(sendLog[r]) : \E j \in DOMAIN messages[r][m].blocks :
                        messages[r][m].blocks[j].id = id

\* C14 witness: two messages with different ids, the first sent, the second not yet
C14_Witness ==
    \E r \in Slots :
        /\ pc[r] = "sending"
        /\ Len(messages[r]) = 2
        /\ sendLog[r] = <<"ok">>
        /\ \E id \in Ids : /\ messages[r][2].blocks[1].id = id
                           /\ messages[r][1].blocks[1].id # id
                           /\ epoch[r] \notin notifiedIn[id]

----------------------------------------------------------------------------
(* The batcher is greedy, checked under SpecBatch *)

\* length of message k of msgs with the first block of message k + 1 appended and
\* the end of the range header moved by one
LengthWithNext(msgs, k, total) ==
    LET blocks == msgs[k].blocks
        start == FirstPos(msgs, k)
    IN  HeaderLen(buildHeader(total, start, start + Len(blocks)))
        + SumLens(blocks) + 2 * Len(blocks) + msgs[k + 1].blocks[1].len

\* length of message k of msgs measured with the range header of its own blocks
LengthAsRange(msgs, k, total) ==
    LET blocks == msgs[k].blocks
        start == FirstPos(msgs, k)
    IN  HeaderLen(buildHeader(total, start, start + Len(blocks) - 1))
        + SumLens(blocks) + 2 * (Len(blocks) - 1)

\* C15: a batch is closed exactly when it is non-empty and the next block would
\* take it over the maximum: for every message but the last, the message with the
\* first block of the following message appended (range header extended by one)
\* is longer than the maximum, no message is empty, and every message of two or
\* more blocks, measured with its range header, is within the maximum.
C15_BatcherGreedy ==
    bDone =>
      /\ \A k \in DOMAIN bOut : Len(bOut[k].blocks) > 0
      /\ \A k \in DOMAIN bOut :
            k < Len(bOut) => LengthWithNext(bOut, k, Len(bIn)) > TELEGRAM_MAX_LENGTH
      /\ \A k \in DOMAIN bOut :
            Len(bOut[k].blocks) >= 2 =>
               LengthAsRange(bOut, k, Len(bIn)) <= TELEGRAM_MAX_LENGTH

\* C15 witness: two blocks filled the first message to the maximum exactly and
\* the third block went to a second message
C15_Witness ==
    /\ bDone
    /\ Len(bOut) = 2
    /\ Len(bOut[1].blocks) = 2
    /\ LengthAsRange(bOut, 1, Len(bIn)) = TELEGRAM_MAX_LENGTH

----------------------------------------------------------------------------
(* Claims about the extraction, checked under SpecExtract *)

\* the document is one fragment, the chunk made of the segments
OfSegments == xDoc = <<Wrap(Flatten(xSegs))>>

GoodSegs == {SegGood7, SegGood42}

\* the id of the record of a good segment
GoodId(seg) == IF seg = SegGood7 THEN <<"7">> ELSE <<"4", "2">>

\* the ids of the good segments of a chunk, in order
RECURSIVE ExpectedIds(_)
ExpectedIds(segs) ==
    IF segs = <<>> THEN <<>>
    ELSE (IF Head(segs) \in GoodSegs THEN <<GoodId(Head(segs))>> ELSE <<>>)
         \o ExpectedIds(Tail(segs))

IdsOfRecords(recs) == [i \in DOMAIN recs |-> recs[i].id]

KindsOf(log) == [i \in DOMAIN log |-> log[i].kind]

\* no closing brace of its own comes after an object that is never closed: the
\* depth of such an object does not return to zero before the end of the chunk
NeverClosed(segs) ==
    \A i, j \in DOMAIN segs : (segs[i] = SegOpen /\ segs[j] = SegClose) => j < i

\* C16: in a chunk where the objects left open never return to depth zero, the
\* record of every marker occurrence followed by a balanced object with the
\* required fields is extracted, in order, whatever unbalanced, unparsable or
\* invalid blocks stand before or between them; an iteration that finds a block
\* unbalanced, unparsable or invalid is followed by another iteration, and the
\* scan ends only where no marker is left or where no opening brace follows a
\* marker.
C16_ScanContinues ==
    (xDone /\ OfSegments /\ xSegs \in SeqsUpTo(SegKinds, MaxSegs) /\ NeverClosed(xSegs)) =>
      /\ IdsOfRecords(xOut) = ExpectedIds(xSegs)
      /\ xChunk.ok =>
           /\ xLog # <<>>
           /\ \A i \in DOMAIN xLog :
                 IF i < Len(xLog)
                 THEN xLog[i].kind \in {"record", "invalid", "parseError", "unbalanced"}
                 ELSE \/ /\ xLog[i].kind = "noMarker"
                         /\ IndexOfSeq(xChunk.s, marker, xLog[i].next) = 0
                      \/ /\ xLog[i].kind = "noBrace"
                         /\ IndexOf(xChunk.s, LB, xLog[i].marker) = 0

\* C16 witness: an object never closed, then a record without title, then a good
\* record, which is the one extracted
C16_Witness ==
    /\ xDone
    /\ xSegs = <<SegOpen, SegNoTitle, SegGood42>>
    /\ KindsOf(xLog) = <<"unbalanced", "invalid", "record", "noMarker">>
    /\ IdsOfRecords(xOut) = <<GoodId(SegGood42)>>

\* number of occurrences of the marker in a text
RECURSIVE CountMarkers(_, _)
CountMarkers(text, from) ==
    LET at == IndexOfSeq(text, marker, from)
    IN  IF at = 0 THEN 0 ELSE 1 + CountMarkers(text, at + 1)

C18_RecordsHaveIdAndTitle ==
    xDone =>
      /\ \A i \in DOMAIN xOut : xOut[i].id # <<>> /\ xOut[i].title # <<>>
      /\ \A v \in {<<>>, <<"str:">>} :
            xSegs \in { <<SegGood42, marker \o RecordObject(v, <<"str:T">>, <<>>, <<>>)>>,
                        <<marker \o RecordObject(<<"str:7">>, v, <<>>, <<>>), SegGood42>> }
               => Len(xOut) = 1

\* the participants field the specification gives for an upstream value text
ClaimedParticipants(valueText) ==
    CASE valueText = <<"num:7">>  -> [nan |-> FALSE, n |-> 7]
      [] valueText = <<"str:7">>  -> [nan |-> FALSE, n |-> 7]
      [] valueText = <<"str:42">> -> [nan |-> FALSE, n |-> 42]
      [] OTHER                    -> [nan |-> FALSE, n |-> 0]

\* C19 (as claimed): participants is always a number: 0 when the upstream value
\* is absent, the value when it is numeric or a numeric string, 0 when it is not
\* numeric.
C19_ParticipantsAsClaimed ==
    xDone =>
      \A v \in ValueTexts :
         xSegs = <<marker \o RecordObject(<<"str:7">>, <<"str:T">>, v, <<>>)>> =>
            /\ Len(xOut) = 1
            /\ xOut[1].participants = ClaimedParticipants(v)

\* the bodies of the payload fragments of a document, in document order
RECURSIVE BodiesOf(_)
BodiesOf(pieces) ==
    IF pieces = <<>> THEN <<>>
    ELSE (IF Head(pieces)[1] = OPEN
          THEN <<SubSeq(Head(pieces), 2, Len(Head(pieces)) - 1)>>
          ELSE <<>>)
         \o BodiesOf(Tail(pieces))

\* the fragment decodes and its decoded content has the text sought
Qualifies(body) ==
    decodeEscapedString(body).ok /\ Includes(decodeEscapedString(body).s, CV)

\* C20: the result is the decoded content of the first fragment, in document
\* order, that decodes and contains the text sought, whatever fragments that fail
\* to decode or lack the text stand before it; it is not-found exactly when no
\* fragment qualifies.
C20_FirstQualifyingFragment ==
    xDone =>
      LET bodies == BodiesOf(xDoc)
          qualifying == { k \in DOMAIN bodies : Qualifies(bodies[k]) }
      IN  IF qualifying = {}
          THEN ~xChunk.ok
          ELSE /\ xChunk.ok
               /\ \E k \in qualifying :
                     /\ \A j \in qualifying : k <= j
                     /\ xChunk.s = decodeEscapedString(bodies[k]).s

\* C20 witness: the first fragment has the text but does not decode, the second
\* lacks it, the third qualifies and is returned with its escape expanded
C20_Witness ==
    /\ xDone
    /\ xDoc = <<Wrap(<<CTL, CV>>), Wrap(<<BS, UHEX>>), Wrap(<<BS, UHEX>> \o SegGood7)>>
    /\ xChunk = Str(<<"A">> \o SegGood7)
    /\ Len(xOut) = 1

\* the object of a record segment: what follows its marker
ObjectOf(seg) == SubSeq(seg, Len(marker) + 1, Len(seg))

\* C24 (as claimed): in the decoded chunk, where the quotes of a record's strings
\* stand as backslash-quote, a brace inside a string value of the record does not
\* affect the depth: the block carved at the record's opening brace is the
\* record's object, up to its own closing brace, and the record is extracted.
C24_BraceInStringIgnored ==
    (xDone /\ OfSegments /\ xSegs # <<>>) =>
      \A c \in BraceChars :
         xSegs[1] \in {SegTitled(c), SegDescribed(c)} =>
            /\ xLog[1].start = Len(marker) + 1
            /\ extractJsonBlock(xChunk.s, xLog[1].start) = Str(ObjectOf(xSegs[1]))
            /\ xLog[1].kind = "record"

\* the entries of the log whose iteration carved a block
Carved(log) == { i \in DOMAIN log : log[i].kind \in {"record", "invalid", "parseError"} }

\* C25: the scan ends, after at most one iteration per marker occurrence and the
\* one that stops it; every iteration that does not stop the scan (block carved
\* and a record pushed, block unbalanced, record invalid, parse failure) leaves the
\* cursor strictly beyond the marker position it found, so the marker positions
\* of successive iterations strictly increase, and a block carved later starts
\* after the end of every block carved before.
C25_ScanProgresses ==
    (xDone /\ xChunk.ok) =>
      /\ xLog # <<>>
      /\ Len(xLog) <= CountMarkers(xChunk.s, 1) + 1
      /\ xLog[Len(xLog)].kind \in {"noMarker", "noBrace"}
      /\ \A i \in 1..(Len(xLog) - 1) :
            /\ xLog[i].kind \in {"record", "invalid", "parseError", "unbalanced"}
            /\ xLog[i].next > xLog[i].marker
            /\ xLog[i + 1].kind # "noMarker" => xLog[i + 1].marker > xLog[i].marker
      /\ \A i, j \in Carved(xLog) :
            i < j => xLog[j].start > BlockEnd(xChunk.s, xLog[i].start, 0, FALSE)

\* C25 witness: an object that holds a second marker occurrence with its record:
\* the only iteration carves the whole outer object and leaves the cursor past
\* its end, so the occurrence inside it is not visited
C25_Witness ==
    /\ xDone
    /\ xSegs = <<SegOpen, SegGood7, SegClose>>
    /\ CountMarkers(xChunk.s, 1) = 2
    /\ KindsOf(xLog) = <<"parseError", "noMarker">>
    /\ xLog[1].next = Len(xChunk.s) + 1

----------------------------------------------------------------------------
(* Claim about the escaping, checked under SpecEscape *)

\* the reserved characters: _ * [ ] ( ) ~ backtick > # + - = | { } . ! and
\* backslash
ReservedChars == {"_", "*", "[", "]", "(", ")", "~", "U+0060", ">", "#", "+", "-", "=", "|",
                  "{", "}", ".", "!", "\\"}

\* number of reserved characters among the first i characters of s
ReservedUpTo(s, i) == Cardinality({ k \in 1..i : s[k] \in ReservedChars })

\* where the i-th character of the input stands in the output when one character
\* is added before each reserved character
PosOf(s, i) == i + ReservedUpTo(s, i)

\* a text with every backslash that stands before another character removed and
\* that character kept
RECURSIVE RemoveAdded(_)
RemoveAdded(out) ==
    IF out = <<>> THEN <<>>
    ELSE IF Head(out) = "\\" /\ Len(out) >= 2
    THEN <<out[2]>> \o RemoveAdded(Tail(Tail(out)))
    ELSE <<Head(out)>> \o RemoveAdded(Tail(out))

\* C21: for every input string, the output of escapeMarkdown is the input with
\* exactly one backslash added immediately before every occurrence of a reserved
\* character; every character of the input stands in the output, in order and
\* unchanged; removing the added backslashes gives back the input.
C21_EscapeAddsOneBackslash ==
    eDone =>
      /\ Len(eOut) = Len(eIn) + ReservedUpTo(eIn, Len(eIn))
      /\ \A i \in DOMAIN eIn :
            /\ eOut[PosOf(eIn, i)] = eIn[i]
            /\ IF eIn[i] \in ReservedChars
               THEN /\ eOut[PosOf(eIn, i) - 1] = "\\"
                    /\ PosOf(eIn, i) - 1 > (IF i = 1 THEN 0 ELSE PosOf(eIn, i - 1))
               ELSE PosOf(eIn, i) - 1 = (IF i = 1 THEN 0 ELSE PosOf(eIn, i - 1))
      /\ RemoveAdded(eOut) = eIn

\* C21 witness: a backslash, a reserved character and a letter: two backslashes
\* added, the letter as it was
C21_Witness ==
    /\ eDone
    /\ eIn = <<"\\", ".", "a">>
    /\ eOut = <<"\\", "\\", "\\", ".", "a">>

----------------------------------------------------------------------------
(* Claims about duplicates and about markers without notification, checked  *)
(* under Spec                                                                *)

\* the places of the rendered blocks of a run's messages: message and position
BlockPlaces(r) ==
    { p \in (1..MaxRecs) \X (1..MaxRecs) :
         p[1] \in DOMAIN messages[r] /\ p[2] \in DOMAIN messages[r][p[1]].blocks }

\* C22 (as claimed): within a run no id stands in more than one rendered block of
\* the run's messages, and no id gets more than one marker write, also when the
\* extracted list holds the same id more than once.
C22_NoIdTwiceInRun ==
    \A r \in Slots :
       /\ \A p, q \in BlockPlaces(r) :
             p # q => messages[r][p[1]].blocks[p[2]].id # messages[r][q[1]].blocks[q[2]].id
       /\ \A i, j \in DOMAIN puts[r] :
             i # j => newItems[r][i].id # newItems[r][j].id

\* C23 (as claimed): a run that has ended by returning or by failing has attempted
\* to send a message holding each id whose marker it persisted, also when the
\* credentials are absent and when one of the marker writes failed.
C23_MarkerOnlyWithNotify ==
    \A r \in Slots :
       pc[r] \in {"done", "failed"} =>
          \A i \in DOMAIN puts[r] :
             puts[r][i] = "done" => epoch[r] \in notifiedIn[newItems[r][i].id]

====
